---- MODULE Spec2Model ----
(***************************************************************************)
(* Event-driven job pipeline: POST /submit (steps/01-submit.step.ts),      *)
(* ResolveChannel (steps/02-resolveChannel.step.ts) and FetchedVideos      *)
(* (unnamed/part_000), coordinated through the job store and the bus.      *)
(*                                                                         *)
(* JavaScript strings are sequences of one-character strings, so that      *)
(* template strings, startsWith and the e-mail pattern are computed.       *)
(* An object is a function whose DOMAIN is the set of its own properties;  *)
(* a missing property reads as undefined.  Every await of a handler is one *)
(* step of its task, so handlers interleave at their awaits.               *)
(***************************************************************************)
EXTENDS Integers, Sequences, FiniteSets, TLC

VARIABLES
    store,       \* the job store: key -> record (state.get / state.set)
    bus,         \* every event accepted by emit, in order: [topic, data, by]
    dlv,         \* dlv[i] = number of times bus[i] was handed to its subscriber
    tasks,       \* handler invocations, running and finished
    now,         \* Date.now()
    faults,      \* number of store / emit / fetch calls that have failed
    apiKey,      \* process.env.YOUTUBE_API_KEY is set
    submitDecl   \* which of the two declarations of the submit handler is live

vars == <<store, bus, dlv, tasks, now, faults, apiKey, submitDecl>>

----------------------------------------------------------------------------
(* Bounds *)

MaxTasks == 3        \* handler invocations in one behaviour
MaxSubmits == 2      \* of which POST /submit requests
MaxDeliveries == 2   \* times the bus may hand one event to its subscriber
MaxFaults == 1       \* failing store / emit / fetch calls in one behaviour
MaxClock == 1        \* clock ticks
MaxListed == 7       \* largest number of entries the listing call returns
MaxForeign == 1      \* events on the bus that no handler of the pipeline emitted

PageSize == 5        \* maxResults=5 in the listing request

----------------------------------------------------------------------------
(* Strings *)

JobPrefix == <<"j", "o", "b", ":">>
JobPrefixSp == <<"j", "o", "b", ":", " ">>
UndefinedStr == <<"u", "n", "d", "e", "f", "i", "n", "e", "d">>

DigitChar == <<"0", "1", "2", "3", "4", "5", "6", "7", "8", "9">>

RECURSIVE NumToString(_)
NumToString(n) ==
    IF n < 10 THEN <<DigitChar[n + 1]>>
    ELSE NumToString(n \div 10) \o <<DigitChar[(n % 10) + 1]>>

\* `job_${Date.now()}_${Math.random().toString(36).substring(2, 9)}`
MakeJobID(t, suffix) == <<"j", "o", "b", "_">> \o NumToString(t) \o <<"_">> \o suffix

\* values of Math.random().toString(36).substring(2, 9)
Suffixes == {<<"k">>, <<"z", "9">>}

\* a property that is missing reads as undefined; !v holds of undefined and ""
Has(obj, f) == f \in DOMAIN obj
Falsy(obj, f) == ~Has(obj, f) \/ obj[f] = <<>>

\* `${v}` of a property: undefined prints as "undefined"
Text(obj, f) == IF Has(obj, f) THEN obj[f] ELSE UndefinedStr

\* `job:${jobID}` (first declaration) and `job: ${jobID}`
SubmitKey1(jobID) == JobPrefix \o jobID
SubmitKey2(jobID) == JobPrefixSp \o jobID
StageKey(data) == JobPrefixSp \o Text(data, "jobID")

\* /^[^\s@]+@[^\s@]+\.[^\s@]+$/
IsSpaceOrAt(c) == c \in {" ", "@"}
PlainRun(s, a, b) == a <= b /\ \A k \in a..b : ~IsSpaceOrAt(s[k])
EmailRegexTest(s) ==
    \E i \in 1..Len(s), j \in 1..Len(s) :
        /\ i < j
        /\ s[i] = "@"
        /\ s[j] = "."
        /\ PlainRun(s, 1, i - 1)
        /\ PlainRun(s, i + 1, j - 1)
        /\ PlainRun(s, j + 1, Len(s))

\* channel.startsWith('@')
StartsWithAt(s) == Len(s) >= 1 /\ s[1] = "@"

----------------------------------------------------------------------------
(* Objects *)

NoRecord == [f \in {} |-> <<>>]

\* { ...jobData, <fields of upd> }; spreading null or undefined adds nothing
Spread(jobData, upd) ==
    [f \in DOMAIN jobData \cup DOMAIN upd |->
        IF f \in DOMAIN upd THEN upd[f] ELSE jobData[f]]

\* the properties among fs that obj has: an undefined property is not sent
Pick(obj, fs) == [f \in fs \cap DOMAIN obj |-> obj[f]]

\* state.get: the stored record, or null
StateGet(key) == IF key \in DOMAIN store THEN store[key] ELSE NoRecord

\* state.set: full-record overwrite
StateSet(key, rec) ==
    [k \in DOMAIN store \cup {key} |-> IF k = key THEN rec ELSE store[k]]

----------------------------------------------------------------------------
(* Inputs *)

ValidEmail == <<"u", "@", "h", ".", "c">>

\* req.body of the requests of the pipeline: a handle, a plain name, no channel
Bodies ==
    {[channel |-> <<"@", "a">>, email |-> ValidEmail],
     [channel |-> <<"a">>, email |-> ValidEmail],
     [email |-> ValidEmail]}

\* emails at the ingress: empty, matching, and failing the pattern in each part
EmailInputs ==
    {<<>>, ValidEmail,
     <<"u", "@", "h", ".", "c", ".", "d">>,
     <<"u", "h", ".", "c">>,
     <<"u", "@", "h">>,
     <<"@", "h", ".", "c">>,
     <<"u", "@", ".", "c">>,
     <<"u", "@", "h", ".">>,
     <<"u", " ", "@", "h", ".", "c">>,
     <<"u", "@", "@", "h", ".", "c">>}

\* req.body at the ingress: both properties, one of them, or none
IngressBodies ==
    {[channel |-> c, email |-> e] : c \in {<<>>, <<"@", "a">>}, e \in EmailInputs}
        \cup {[channel |-> <<"a">>], [email |-> ValidEmail], NoRecord}

----------------------------------------------------------------------------
(* Tasks *)

NewTask(kind, pc, data, ev) ==
    [kind |-> kind, pc |-> pc, data |-> data, ev |-> ev,
     jobID |-> <<>>, createdAt |-> <<>>, jobData |-> NoRecord,
     channelID |-> <<>>, channelName |-> <<>>, videos |-> <<>>,
     primary |-> -1, fallback |-> -1, listed |-> -1,
     err |-> "", resp |-> 0, threw |-> FALSE,
     writes |-> <<>>, emits |-> <<>>]

Running(t) == t \in 1..Len(tasks) /\ tasks[t].pc # "done"

NumSubmits == Cardinality({t \in 1..Len(tasks) : tasks[t].kind = "submit"})

CanFail == faults < MaxFaults

Init ==
    /\ store = [k \in {} |-> NoRecord]
    /\ bus = <<>>
    /\ dlv = <<>>
    /\ tasks = <<>>
    /\ now = 0
    /\ faults = 0
    /\ apiKey \in BOOLEAN
    /\ submitDecl \in {1, 2}

\* the clock advances; only a submission reads it
Tick ==
    /\ now < MaxClock
    /\ NumSubmits < MaxSubmits
    /\ now' = now + 1
    /\ UNCHANGED <<store, bus, dlv, tasks, faults, apiKey, submitDecl>>

----------------------------------------------------------------------------
(* POST /submit *)

SubmitKey(jobID) == IF submitDecl = 1 THEN SubmitKey1(jobID) ELSE SubmitKey2(jobID)

\* the handler without the test of the email against the pattern
SubmitStart_NoEmailTest(bodies) ==
    /\ Len(tasks) < MaxTasks
    /\ NumSubmits < MaxSubmits
    /\ \E body \in bodies :
        LET t0 == NewTask("submit", "set", body, 0) IN
        IF Falsy(body, "channel") \/ Falsy(body, "email")
        THEN tasks' = Append(tasks, [t0 EXCEPT !.pc = "done", !.resp = 400])
        ELSE \E suffix \in Suffixes :
                tasks' = Append(tasks, [t0 EXCEPT !.jobID = MakeJobID(now, suffix),
                                                 !.createdAt = NumToString(now)])
    /\ UNCHANGED <<store, bus, dlv, now, faults, apiKey, submitDecl>>

\* the handler up to its first await: validation and the job identifier
SubmitStart(bodies) ==
    /\ Len(tasks) < MaxTasks
    /\ NumSubmits < MaxSubmits
    /\ \E body \in bodies :
        LET t0 == NewTask("submit", "set", body, 0) IN
        IF Falsy(body, "channel") \/ Falsy(body, "email")
        THEN tasks' = Append(tasks, [t0 EXCEPT !.pc = "done", !.resp = 400])
        ELSE IF ~EmailRegexTest(body.email)
        THEN tasks' = Append(tasks, [t0 EXCEPT !.pc = "done", !.resp = 400])
        ELSE \E suffix \in Suffixes :
                tasks' = Append(tasks, [t0 EXCEPT !.jobID = MakeJobID(now, suffix),
                                                 !.createdAt = NumToString(now)])
    /\ UNCHANGED <<store, bus, dlv, now, faults, apiKey, submitDecl>>

SubmitRecord(t) ==
    [jobID |-> tasks[t].jobID, channel |-> tasks[t].data.channel,
     email |-> tasks[t].data.email, status |-> "queued",
     createdAt |-> tasks[t].createdAt]

\* await state.set(...), then on failure the catch returns 500
SubmitSet(t) ==
    /\ Running(t) /\ tasks[t].kind = "submit" /\ tasks[t].pc = "set"
    /\ \/ /\ store' = StateSet(SubmitKey(tasks[t].jobID), SubmitRecord(t))
          /\ tasks' = [tasks EXCEPT ![t].pc = "emit",
                          ![t].writes = Append(@, [key |-> SubmitKey(tasks[t].jobID),
                                                   rec |-> SubmitRecord(t)])]
          /\ UNCHANGED faults
       \/ /\ CanFail
          /\ faults' = faults + 1
          /\ tasks' = [tasks EXCEPT ![t].pc = "done", ![t].resp = 500]
          /\ UNCHANGED store
    /\ UNCHANGED <<bus, dlv, now, apiKey, submitDecl>>

\* the event without the channel
SubmitEvent_NoChannel(t) ==
    [topic |-> "yt.submit", by |-> t,
     data |-> [jobID |-> tasks[t].jobID, email |-> tasks[t].data.email]]

\* { topic: "yt.submit", data: { jobID, channel, email } }
SubmitEvent(t) ==
    [topic |-> "yt.submit", by |-> t,
     data |-> [jobID |-> tasks[t].jobID, channel |-> tasks[t].data.channel,
               email |-> tasks[t].data.email]]

\* await emit(...), then return 201; on failure the catch returns 500
SubmitEmit(t) ==
    /\ Running(t) /\ tasks[t].kind = "submit" /\ tasks[t].pc = "emit"
    /\ \/ /\ bus' = Append(bus, SubmitEvent(t))
          /\ dlv' = Append(dlv, 0)
          /\ tasks' = [tasks EXCEPT ![t].pc = "done", ![t].resp = 201,
                          ![t].emits = Append(@, SubmitEvent(t))]
          /\ UNCHANGED faults
       \/ /\ CanFail
          /\ faults' = faults + 1
          /\ tasks' = [tasks EXCEPT ![t].pc = "done", ![t].resp = 500]
          /\ UNCHANGED <<bus, dlv>>
    /\ UNCHANGED <<store, now, apiKey, submitDecl>>

----------------------------------------------------------------------------
(* The catch block of the two event handlers *)

MsgNoKey == "YOUTUBE_API_KEY is not set in environment variables"
MsgState == "state call failed"
MsgEmit == "emit failed"
MsgFetch == "fetch failed"
MsgType == "Cannot read properties of undefined"

\* the catch up to its first await: without jobID or email it only logs
Caught(task, msg) ==
    IF Falsy(task.data, "jobID") \/ Falsy(task.data, "email")
    THEN [task EXCEPT !.pc = "done", !.err = msg]
    ELSE [task EXCEPT !.pc = "c_get", !.err = msg]

\* a call of the task fails and its try block is left
Fails(t, msg) ==
    /\ CanFail
    /\ faults' = faults + 1
    /\ tasks' = [tasks EXCEPT ![t] = Caught(@, msg)]

\* a call inside the catch block fails: the exception leaves the handler
Escapes(t) ==
    /\ CanFail
    /\ faults' = faults + 1
    /\ tasks' = [tasks EXCEPT ![t].pc = "done", ![t].threw = TRUE]

\* the task's state.set succeeds
Writes(t, rec, pc) ==
    /\ store' = StateSet(StageKey(tasks[t].data), rec)
    /\ tasks' = [tasks EXCEPT ![t].pc = pc,
                    ![t].writes = Append(@, [key |-> StageKey(tasks[t].data), rec |-> rec])]

\* the task's emit succeeds
Emits(t, topic, data, pc) ==
    /\ bus' = Append(bus, [topic |-> topic, by |-> t, data |-> data])
    /\ dlv' = Append(dlv, 0)
    /\ tasks' = [tasks EXCEPT ![t].pc = pc,
                    ![t].emits = Append(@, [topic |-> topic, by |-> t, data |-> data])]

\* the bus hands event i to the subscriber of its topic
Delivered(i, topic) ==
    /\ i \in 1..Len(bus)
    /\ bus[i].topic = topic
    /\ dlv[i] < MaxDeliveries
    /\ Len(tasks) < MaxTasks
    /\ dlv' = [dlv EXCEPT ![i] = @ + 1]

\* catch: const jobData = await state.get(...)
CatchGet(t) ==
    /\ Running(t) /\ tasks[t].pc = "c_get"
    /\ \/ /\ tasks' = [tasks EXCEPT ![t].jobData = StateGet(StageKey(tasks[t].data)),
                                    ![t].pc = "c_set"]
          /\ UNCHANGED faults
       \/ Escapes(t)
    /\ UNCHANGED <<store, bus, dlv, now, apiKey, submitDecl>>

\* catch: await state.set(..., {...jobData, status: "failed", error: error.message})
CatchSet(t) ==
    /\ Running(t) /\ tasks[t].pc = "c_set"
    /\ \/ /\ Writes(t, Spread(tasks[t].jobData,
                              [status |-> "failed", error |-> tasks[t].err]), "c_emit")
          /\ UNCHANGED faults
       \/ Escapes(t) /\ UNCHANGED store
    /\ UNCHANGED <<bus, dlv, now, apiKey, submitDecl>>

CatchTopic(kind) == IF kind = "resolve" THEN "yt.channel.error" ELSE "yt.videos.error"
CatchPrefix(kind) ==
    IF kind = "resolve" THEN "Failed to resolve channel: " ELSE "Failed to fetch videos: "

\* catch: await emit({topic, data: {jobID, email, error: <prefix> + error.message}})
CatchEmit(t) ==
    /\ Running(t) /\ tasks[t].pc = "c_emit"
    /\ \/ /\ Emits(t, CatchTopic(tasks[t].kind),
                   [jobID |-> tasks[t].data.jobID, email |-> tasks[t].data.email,
                    error |-> <<CatchPrefix(tasks[t].kind), tasks[t].err>>], "done")
          /\ UNCHANGED faults
       \/ Escapes(t) /\ UNCHANGED <<bus, dlv>>
    /\ UNCHANGED <<store, now, apiKey, submitDecl>>

----------------------------------------------------------------------------
(* ResolveChannel: subscribes yt.submit *)

Cand1 == [channelId |-> <<"U", "C", "1">>, title |-> <<"A">>]
Cand2 == [channelId |-> <<"U", "C", "2">>, title |-> <<"B">>]

\* searchData.items of a channel search
SearchResponses == {<<>>, <<Cand2, Cand1>>}

\* the handler up to its first await: payload and API key
ResolveStart(i) ==
    /\ Delivered(i, "yt.submit")
    /\ LET t0 == NewTask("resolve", "get", bus[i].data, i) IN
       tasks' = Append(tasks, IF apiKey THEN t0 ELSE Caught(t0, MsgNoKey))
    /\ UNCHANGED <<store, bus, now, faults, apiKey, submitDecl>>

\* const jobData = await state.get(`job: ${jobID}`)
ResolveGet(t) ==
    /\ Running(t) /\ tasks[t].kind = "resolve" /\ tasks[t].pc = "get"
    /\ \/ /\ tasks' = [tasks EXCEPT ![t].jobData = StateGet(StageKey(tasks[t].data)),
                                    ![t].pc = "set"]
          /\ UNCHANGED faults
       \/ Fails(t, MsgState)
    /\ UNCHANGED <<store, bus, dlv, now, apiKey, submitDecl>>

\* if (!channelID): the not-found path, else the resolved event
AfterLookup(task) ==
    IF task.channelID = <<>> THEN [task EXCEPT !.pc = "nf_set"]
    ELSE [task EXCEPT !.pc = "emit"]

\* the branch that takes the text of a reference that is no handle as the identifier
ResolveBranch_RawAsID(task) ==
    IF ~Has(task.data, "channel") THEN Caught(task, MsgType)
    ELSE IF StartsWithAt(task.data.channel) THEN [task EXCEPT !.pc = "search"]
    ELSE AfterLookup([task EXCEPT !.channelID = task.data.channel])

\* where the handler goes after the first write: channel.startsWith('@')
ResolveBranch(task) ==
    IF ~Has(task.data, "channel") THEN Caught(task, MsgType)
    ELSE IF StartsWithAt(task.data.channel) THEN [task EXCEPT !.pc = "search"]
    ELSE AfterLookup(task)

\* await state.set(..., {...jobData, status: "resolving channel"})
ResolveSet(t) ==
    /\ Running(t) /\ tasks[t].kind = "resolve" /\ tasks[t].pc = "set"
    /\ \/ /\ LET rec == Spread(tasks[t].jobData, [status |-> "resolving channel"])
                 key == StageKey(tasks[t].data) IN
             /\ store' = StateSet(key, rec)
             /\ tasks' = [tasks EXCEPT ![t] =
                    ResolveBranch([@ EXCEPT !.writes =
                        Append(@, [key |-> key, rec |-> rec])])]
          /\ UNCHANGED faults
       \/ Fails(t, MsgState) /\ UNCHANGED store
    /\ UNCHANGED <<bus, dlv, now, apiKey, submitDecl>>

\* the search by handle: items[0] gives channelID and channelName
ResolveSearch(t) ==
    /\ Running(t) /\ tasks[t].kind = "resolve" /\ tasks[t].pc = "search"
    /\ \/ /\ \E items \in SearchResponses :
                IF Len(items) > 0
                THEN tasks' = [tasks EXCEPT ![t] =
                        AfterLookup([@ EXCEPT !.channelID = items[1].channelId,
                                              !.channelName = items[1].title,
                                              !.primary = Len(items)])]
                ELSE tasks' = [tasks EXCEPT ![t].primary = 0, ![t].pc = "fallback"]
          /\ UNCHANGED faults
       \/ Fails(t, MsgFetch)
    /\ UNCHANGED <<store, bus, dlv, now, apiKey, submitDecl>>

\* the fallback search by the raw text: its result is not used
ResolveFallback(t) ==
    /\ Running(t) /\ tasks[t].kind = "resolve" /\ tasks[t].pc = "fallback"
    /\ \/ /\ \E items \in SearchResponses :
                tasks' = [tasks EXCEPT ![t] = AfterLookup([@ EXCEPT !.fallback = Len(items)])]
          /\ UNCHANGED faults
       \/ Fails(t, MsgFetch)
    /\ UNCHANGED <<store, bus, dlv, now, apiKey, submitDecl>>

\* if (!channelID): await state.set(..., {...jobData, status: "failed", error})
ResolveNotFoundSet(t) ==
    /\ Running(t) /\ tasks[t].kind = "resolve" /\ tasks[t].pc = "nf_set"
    /\ \/ /\ Writes(t, Spread(tasks[t].jobData,
                              [status |-> "failed", error |-> "Channel not found"]), "nf_emit")
          /\ UNCHANGED faults
       \/ Fails(t, MsgState) /\ UNCHANGED store
    /\ UNCHANGED <<bus, dlv, now, apiKey, submitDecl>>

\* await emit({topic: "yt.channel.error", data: {jobID, email}})
ResolveNotFoundEmit(t) ==
    /\ Running(t) /\ tasks[t].kind = "resolve" /\ tasks[t].pc = "nf_emit"
    /\ \/ /\ Emits(t, "yt.channel.error", Pick(tasks[t].data, {"jobID", "email"}), "done")
          /\ UNCHANGED faults
       \/ Fails(t, MsgEmit) /\ UNCHANGED <<bus, dlv>>
    /\ UNCHANGED <<store, now, apiKey, submitDecl>>

\* await emit({topic: "yt.channel.resolved", data: {jobID, channelID, channelName, email}})
ResolveEmit(t) ==
    /\ Running(t) /\ tasks[t].kind = "resolve" /\ tasks[t].pc = "emit"
    /\ \/ /\ Emits(t, "yt.channel.resolved",
                   Spread(Pick(tasks[t].data, {"jobID", "email"}),
                          [channelID |-> tasks[t].channelID,
                           channelName |-> tasks[t].channelName]), "done")
          /\ UNCHANGED faults
       \/ Fails(t, MsgEmit) /\ UNCHANGED <<bus, dlv>>
    /\ UNCHANGED <<store, now, apiKey, submitDecl>>

----------------------------------------------------------------------------
(* FetchedVideos: subscribes yt.channel.resolved *)

WatchURL == <<"https://www.youtube.com/watch?v=">>

\* the i-th entry of ytData.items, newest first
RawItem(i) ==
    [videoId |-> <<"v", DigitChar[i + 1]>>, title |-> <<"t", DigitChar[i + 1]>>,
     publishedAt |-> NumToString(100 - i), thumbnail |-> <<"p", DigitChar[i + 1]>>]

ListingSizes == {0, 1, PageSize, MaxListed}

\* ytData.items.map(...)
ToVideo(item) ==
    [videoID |-> item.videoId, title |-> item.title, url |-> WatchURL \o item.videoId,
     publishedAt |-> item.publishedAt, thumbnail |-> item.thumbnail]

\* the handler up to its first await: payload and API key
FetchStart(i) ==
    /\ Delivered(i, "yt.channel.resolved")
    /\ LET t0 == NewTask("fetch", "get", bus[i].data, i) IN
       tasks' = Append(tasks, IF apiKey THEN t0 ELSE Caught(t0, MsgNoKey))
    /\ UNCHANGED <<store, bus, now, faults, apiKey, submitDecl>>

\* const jobData = await state.get(`job: ${jobID}`)
FetchGet(t) ==
    /\ Running(t) /\ tasks[t].kind = "fetch" /\ tasks[t].pc = "get"
    /\ \/ /\ tasks' = [tasks EXCEPT ![t].jobData = StateGet(StageKey(tasks[t].data)),
                                    ![t].pc = "set"]
          /\ UNCHANGED faults
       \/ Fails(t, MsgState)
    /\ UNCHANGED <<store, bus, dlv, now, apiKey, submitDecl>>

\* await state.set(..., {...jobData, status: "fetching videos"})
FetchSet(t) ==
    /\ Running(t) /\ tasks[t].kind = "fetch" /\ tasks[t].pc = "set"
    /\ \/ /\ Writes(t, Spread(tasks[t].jobData, [status |-> "fetching videos"]), "list")
          /\ UNCHANGED faults
       \/ Fails(t, MsgState) /\ UNCHANGED store
    /\ UNCHANGED <<bus, dlv, now, apiKey, submitDecl>>

\* the listing call and the mapping of its entries
FetchList(t) ==
    /\ Running(t) /\ tasks[t].kind = "fetch" /\ tasks[t].pc = "list"
    /\ \/ /\ \E n \in ListingSizes :
                IF n = 0
                THEN tasks' = [tasks EXCEPT ![t].listed = 0, ![t].pc = "nv_set"]
                ELSE tasks' = [tasks EXCEPT ![t].videos = [i \in 1..n |-> ToVideo(RawItem(i))],
                                            ![t].listed = n,
                                            ![t].pc = "ok_set"]
          /\ UNCHANGED faults
       \/ Fails(t, MsgFetch)
    /\ UNCHANGED <<store, bus, dlv, now, apiKey, submitDecl>>

\* no entries: await state.set(..., {...jobData, status: "failed", error: "no videos found"})
FetchNoVideosSet(t) ==
    /\ Running(t) /\ tasks[t].kind = "fetch" /\ tasks[t].pc = "nv_set"
    /\ \/ /\ Writes(t, Spread(tasks[t].jobData,
                              [status |-> "failed", error |-> "no videos found"]), "nv_emit")
          /\ UNCHANGED faults
       \/ Fails(t, MsgState) /\ UNCHANGED store
    /\ UNCHANGED <<bus, dlv, now, apiKey, submitDecl>>

\* await emit({topic: "yt.videos.error", data: {jobID, email, error}})
FetchNoVideosEmit(t) ==
    /\ Running(t) /\ tasks[t].kind = "fetch" /\ tasks[t].pc = "nv_emit"
    /\ \/ /\ Emits(t, "yt.videos.error",
                   Spread(Pick(tasks[t].data, {"jobID", "email"}),
                          [error |-> <<"No videos found for channel">>]), "done")
          /\ UNCHANGED faults
       \/ Fails(t, MsgEmit) /\ UNCHANGED <<bus, dlv>>
    /\ UNCHANGED <<store, now, apiKey, submitDecl>>

\* await state.set(..., {...jobData, status: "videos fetched", videos})
FetchVideosSet(t) ==
    /\ Running(t) /\ tasks[t].kind = "fetch" /\ tasks[t].pc = "ok_set"
    /\ \/ /\ Writes(t, Spread(tasks[t].jobData,
                              [status |-> "videos fetched", videos |-> tasks[t].videos]),
                    "ok_emit")
          /\ UNCHANGED faults
       \/ Fails(t, MsgState) /\ UNCHANGED store
    /\ UNCHANGED <<bus, dlv, now, apiKey, submitDecl>>

\* await emit({topic: "yt.videos.fetched", data: {jobID, videos, channelName, email}})
FetchVideosEmit(t) ==
    /\ Running(t) /\ tasks[t].kind = "fetch" /\ tasks[t].pc = "ok_emit"
    /\ \/ /\ Emits(t, "yt.videos.fetched",
                   Spread(Pick(tasks[t].data, {"jobID", "email", "channelName"}),
                          [videos |-> tasks[t].videos]), "done")
          /\ UNCHANGED faults
       \/ Fails(t, MsgEmit) /\ UNCHANGED <<bus, dlv>>
    /\ UNCHANGED <<store, now, apiKey, submitDecl>>

----------------------------------------------------------------------------
(* Events of other publishers *)

\* eventData without jobID, without email, absent (eventData || {}), or complete
ForeignPayloads ==
    {NoRecord,
     [channel |-> <<"a">>, email |-> ValidEmail],
     [jobID |-> <<"x">>, channel |-> <<"@", "a">>],
     [jobID |-> <<"x">>, channel |-> <<"a">>, email |-> ValidEmail]}

NumForeign == Cardinality({i \in 1..Len(bus) : bus[i].by = 0})

\* an event reaches a subscribed topic whose payload is not one of the pipeline's
Publish ==
    /\ NumForeign < MaxForeign
    /\ \E topic \in {"yt.submit", "yt.channel.resolved"}, data \in ForeignPayloads :
        bus' = Append(bus, [topic |-> topic, by |-> 0, data |-> data])
    /\ dlv' = Append(dlv, 0)
    /\ UNCHANGED <<store, tasks, now, faults, apiKey, submitDecl>>

----------------------------------------------------------------------------

Next ==
    \/ Tick
    \/ SubmitStart(Bodies)
    \/ \E t \in 1..MaxTasks : SubmitSet(t)
    \/ \E t \in 1..MaxTasks : SubmitEmit(t)
    \/ \E i \in 1..MaxTasks : ResolveStart(i)
    \/ \E t \in 1..MaxTasks : ResolveGet(t)
    \/ \E t \in 1..MaxTasks : ResolveSet(t)
    \/ \E t \in 1..MaxTasks : ResolveSearch(t)
    \/ \E t \in 1..MaxTasks : ResolveFallback(t)
    \/ \E t \in 1..MaxTasks : ResolveNotFoundSet(t)
    \/ \E t \in 1..MaxTasks : ResolveNotFoundEmit(t)
    \/ \E t \in 1..MaxTasks : ResolveEmit(t)
    \/ \E i \in 1..MaxTasks : FetchStart(i)
    \/ \E t \in 1..MaxTasks : FetchGet(t)
    \/ \E t \in 1..MaxTasks : FetchSet(t)
    \/ \E t \in 1..MaxTasks : FetchList(t)
    \/ \E t \in 1..MaxTasks : FetchNoVideosSet(t)
    \/ \E t \in 1..MaxTasks : FetchNoVideosEmit(t)
    \/ \E t \in 1..MaxTasks : FetchVideosSet(t)
    \/ \E t \in 1..MaxTasks : FetchVideosEmit(t)
    \/ \E t \in 1..MaxTasks : CatchGet(t)
    \/ \E t \in 1..MaxTasks : CatchSet(t)
    \/ \E t \in 1..MaxTasks : CatchEmit(t)

Spec == Init /\ [][Next]_vars

\* the ingress alone, over every request body
IngressNext ==
    \/ Tick
    \/ SubmitStart(IngressBodies)
    \/ \E t \in 1..MaxTasks : SubmitSet(t)
    \/ \E t \in 1..MaxTasks : SubmitEmit(t)

IngressSpec == Init /\ [][IngressNext]_vars

\* the two event handlers alone, under any event on their topics
StageNext ==
    \/ Publish
    \/ \E i \in 1..MaxTasks : ResolveStart(i)
    \/ \E t \in 1..MaxTasks : ResolveGet(t)
    \/ \E t \in 1..MaxTasks : ResolveSet(t)
    \/ \E t \in 1..MaxTasks : ResolveSearch(t)
    \/ \E t \in 1..MaxTasks : ResolveFallback(t)
    \/ \E t \in 1..MaxTasks : ResolveNotFoundSet(t)
    \/ \E t \in 1..MaxTasks : ResolveNotFoundEmit(t)
    \/ \E t \in 1..MaxTasks : ResolveEmit(t)
    \/ \E i \in 1..MaxTasks : FetchStart(i)
    \/ \E t \in 1..MaxTasks : FetchGet(t)
    \/ \E t \in 1..MaxTasks : FetchSet(t)
    \/ \E t \in 1..MaxTasks : FetchList(t)
    \/ \E t \in 1..MaxTasks : FetchNoVideosSet(t)
    \/ \E t \in 1..MaxTasks : FetchNoVideosEmit(t)
    \/ \E t \in 1..MaxTasks : FetchVideosSet(t)
    \/ \E t \in 1..MaxTasks : FetchVideosEmit(t)
    \/ \E t \in 1..MaxTasks : CatchGet(t)
    \/ \E t \in 1..MaxTasks : CatchSet(t)
    \/ \E t \in 1..MaxTasks : CatchEmit(t)

StageSpec == Init /\ [][StageNext]_vars

\* the pipeline when the bus hands every event to its subscriber at most once
OnceNext ==
    \/ Tick
    \/ SubmitStart(Bodies)
    \/ \E t \in 1..MaxTasks : SubmitSet(t)
    \/ \E t \in 1..MaxTasks : SubmitEmit(t)
    \/ \E i \in 1..MaxTasks : ResolveStart(i) /\ dlv[i] = 0
    \/ \E t \in 1..MaxTasks : ResolveGet(t)
    \/ \E t \in 1..MaxTasks : ResolveSet(t)
    \/ \E t \in 1..MaxTasks : ResolveSearch(t)
    \/ \E t \in 1..MaxTasks : ResolveFallback(t)
    \/ \E t \in 1..MaxTasks : ResolveNotFoundSet(t)
    \/ \E t \in 1..MaxTasks : ResolveNotFoundEmit(t)
    \/ \E t \in 1..MaxTasks : ResolveEmit(t)
    \/ \E i \in 1..MaxTasks : FetchStart(i) /\ dlv[i] = 0
    \/ \E t \in 1..MaxTasks : FetchGet(t)
    \/ \E t \in 1..MaxTasks : FetchSet(t)
    \/ \E t \in 1..MaxTasks : FetchList(t)
    \/ \E t \in 1..MaxTasks : FetchNoVideosSet(t)
    \/ \E t \in 1..MaxTasks : FetchNoVideosEmit(t)
    \/ \E t \in 1..MaxTasks : FetchVideosSet(t)
    \/ \E t \in 1..MaxTasks : FetchVideosEmit(t)
    \/ \E t \in 1..MaxTasks : CatchGet(t)
    \/ \E t \in 1..MaxTasks : CatchSet(t)
    \/ \E t \in 1..MaxTasks : CatchEmit(t)

OnceSpec == Init /\ [][OnceNext]_vars

\* one submission whose events are delivered once and whose store and emit
\* calls succeed; the external calls may still fail
LiveNext ==
    \/ Tick
    \/ SubmitStart(Bodies) /\ NumSubmits = 0
    \/ \E t \in 1..MaxTasks : SubmitSet(t) /\ UNCHANGED faults
    \/ \E t \in 1..MaxTasks : SubmitEmit(t) /\ UNCHANGED faults
    \/ \E i \in 1..MaxTasks : ResolveStart(i) /\ dlv[i] = 0
    \/ \E t \in 1..MaxTasks : ResolveGet(t) /\ UNCHANGED faults
    \/ \E t \in 1..MaxTasks : ResolveSet(t) /\ UNCHANGED faults
    \/ \E t \in 1..MaxTasks : ResolveSearch(t)
    \/ \E t \in 1..MaxTasks : ResolveFallback(t)
    \/ \E t \in 1..MaxTasks : ResolveNotFoundSet(t) /\ UNCHANGED faults
    \/ \E t \in 1..MaxTasks : ResolveNotFoundEmit(t) /\ UNCHANGED faults
    \/ \E t \in 1..MaxTasks : ResolveEmit(t) /\ UNCHANGED faults
    \/ \E i \in 1..MaxTasks : FetchStart(i) /\ dlv[i] = 0
    \/ \E t \in 1..MaxTasks : FetchGet(t) /\ UNCHANGED faults
    \/ \E t \in 1..MaxTasks : FetchSet(t) /\ UNCHANGED faults
    \/ \E t \in 1..MaxTasks : FetchList(t)
    \/ \E t \in 1..MaxTasks : FetchNoVideosSet(t) /\ UNCHANGED faults
    \/ \E t \in 1..MaxTasks : FetchNoVideosEmit(t) /\ UNCHANGED faults
    \/ \E t \in 1..MaxTasks : FetchVideosSet(t) /\ UNCHANGED faults
    \/ \E t \in 1..MaxTasks : FetchVideosEmit(t) /\ UNCHANGED faults
    \/ \E t \in 1..MaxTasks : CatchGet(t) /\ UNCHANGED faults
    \/ \E t \in 1..MaxTasks : CatchSet(t) /\ UNCHANGED faults
    \/ \E t \in 1..MaxTasks : CatchEmit(t) /\ UNCHANGED faults

\* every handler that can take a step eventually takes one, and every event
\* is eventually delivered
LiveSpec == Init /\ [][LiveNext]_vars /\ WF_vars(LiveNext)

----------------------------------------------------------------------------
(* Properties *)

StageKinds == {"resolve", "fetch"}

Tasks == 1..Len(tasks)

\* the order queued < resolving channel < fetching videos < {videos fetched, failed}
Rank(status) ==
    CASE status = "queued" -> 0
      [] status = "resolving channel" -> 1
      [] status = "fetching videos" -> 2
      [] status = "videos fetched" -> 3
      [] status = "failed" -> 3

IsTerminal(rec) == rec.status \in {"videos fetched", "failed"}

LastOf(seq) == seq[Len(seq)]

\* task t performed a store write in this step
Wrote(t) == Len(tasks'[t].writes) > Len(tasks[t].writes)

\* C1: no store write of the resolution or listing stage replaces the status
\* of a stored record by one that is earlier in the order of statuses,
\* redelivered events included.
C1_StatusNeverBackward ==
    [][\A t \in Tasks :
        (tasks[t].kind \in StageKinds /\ Wrote(t)
            /\ LastOf(tasks'[t].writes).key \in DOMAIN store)
        => Rank(LastOf(tasks'[t].writes).rec.status)
              >= Rank(store[LastOf(tasks'[t].writes).key].status)]_vars

\* C2: once the record of a job is terminal (failed or videos fetched) no
\* step of a resolution or listing invocation for that job changes it.
C2_TerminalAbsorbing ==
    [][\A t \in Tasks :
        (tasks[t].kind \in StageKinds /\ tasks'[t] # tasks[t]
            /\ StageKey(tasks[t].data) \in DOMAIN store
            /\ IsTerminal(store[StageKey(tasks[t].data)]))
        => store'[StageKey(tasks[t].data)] = store[StageKey(tasks[t].data)]]_vars

\* the submission lacks channel or email, or its email fails the pattern
BadSubmission(body) ==
    \/ Falsy(body, "channel")
    \/ Falsy(body, "email")
    \/ ~EmailRegexTest(body.email)

\* C3: a submission whose channel or email is missing or empty, or whose
\* email does not match the pattern, is answered 400 without any store
\* write and without any event.
C3_BadSubmissionRejected ==
    \A t \in Tasks :
        (tasks[t].kind = "submit" /\ BadSubmission(tasks[t].data))
        => /\ tasks[t].pc = "done"
           /\ tasks[t].resp = 400
           /\ tasks[t].writes = <<>>
           /\ tasks[t].emits = <<>>
           /\ \A i \in 1..Len(bus) : bus[i].by # t

\* a submission with a malformed email and one without channel were answered
C3_Witness ==
    /\ \E t \in Tasks :
        /\ tasks[t].kind = "submit" /\ tasks[t].resp = 400
        /\ ~Falsy(tasks[t].data, "channel") /\ ~Falsy(tasks[t].data, "email")
        /\ ~EmailRegexTest(tasks[t].data.email)
    /\ \E t \in Tasks :
        tasks[t].kind = "submit" /\ tasks[t].resp = 400 /\ ~Has(tasks[t].data, "channel")

\* C4: a submission answered 201 wrote exactly one record, with status
\* queued, the submitted channel and email and the returned jobID, and emitted
\* exactly one yt.submit event {jobID, channel, email} with that jobID; an
\* event of a submission is never on the bus before its record is written.
C4_AcceptedSubmission ==
    \A t \in Tasks :
        tasks[t].kind = "submit" =>
            /\ tasks[t].emits # <<>> => Len(tasks[t].writes) = 1
            /\ tasks[t].resp = 201 =>
                /\ Len(tasks[t].writes) = 1
                /\ tasks[t].writes[1].rec.jobID = tasks[t].jobID
                /\ tasks[t].writes[1].rec.status = "queued"
                /\ tasks[t].writes[1].rec.channel = tasks[t].data.channel
                /\ tasks[t].writes[1].rec.email = tasks[t].data.email
                /\ Len(tasks[t].emits) = 1
                /\ tasks[t].emits[1].topic = "yt.submit"
                /\ tasks[t].emits[1].data =
                      [jobID |-> tasks[t].jobID, channel |-> tasks[t].data.channel,
                       email |-> tasks[t].data.email]
                /\ Cardinality({i \in 1..Len(bus) : bus[i].by = t}) = 1

C4_Witness ==
    \E t \in Tasks :
        /\ tasks[t].kind = "submit" /\ tasks[t].resp = 201
        /\ \E i \in 1..Len(bus) : bus[i].by = t /\ bus[i].data.jobID = tasks[t].jobID

\* C5: two accepted submissions never have the same jobID.
C5_DistinctJobIDs ==
    \A t1, t2 \in Tasks :
        (t1 # t2 /\ tasks[t1].kind = "submit" /\ tasks[t2].kind = "submit"
            /\ tasks[t1].resp = 201 /\ tasks[t2].resp = 201)
        => tasks[t1].jobID # tasks[t2].jobID

\* C6: a stored record has an error field exactly when its status is failed.
C6_ErrorIffFailed ==
    \A k \in DOMAIN store : Has(store[k], "error") <=> store[k].status = "failed"

\* C7: a stored record has the videos field exactly when its status is
\* videos fetched; a failed record carries no videos.
C7_VideosIffFetched ==
    \A k \in DOMAIN store : Has(store[k], "videos") <=> store[k].status = "videos fetched"

\* C8: the videos of a record with status videos fetched, and those of a
\* yt.videos.fetched event, number between 1 and 5, whatever the listing
\* call returned.
C8_VideosWithinPage ==
    /\ \A k \in DOMAIN store :
        (store[k].status = "videos fetched" /\ Has(store[k], "videos"))
        => Len(store[k].videos) \in 1..PageSize
    /\ \A i \in 1..Len(bus) :
        bus[i].topic = "yt.videos.fetched" => Len(bus[i].data.videos) \in 1..PageSize

\* the resolution invocation t ends in this step
Ends(t) == tasks[t].pc # "done" /\ tasks'[t].pc = "done"

\* C9: when a resolution invocation for a handle whose primary lookup
\* returned a candidate ends without a failed call, the stored record has
\* status resolving channel and the channelID and channelName of the first
\* candidate, and the invocation emitted exactly one yt.channel.resolved
\* event with those values.
C9_ResolvedRecord ==
    [][\A t \in Tasks :
        (tasks[t].kind = "resolve" /\ Ends(t) /\ tasks'[t].primary > 0
            /\ tasks'[t].err = "" /\ ~tasks'[t].threw)
        => /\ Len(tasks'[t].emits) = 1
           /\ tasks'[t].emits[1].topic = "yt.channel.resolved"
           /\ tasks'[t].emits[1].data.channelID = tasks'[t].channelID
           /\ StageKey(tasks[t].data) \in DOMAIN store'
           /\ store'[StageKey(tasks[t].data)].status = "resolving channel"
           /\ Has(store'[StageKey(tasks[t].data)], "channelID")
           /\ store'[StageKey(tasks[t].data)].channelID = tasks'[t].channelID
           /\ Has(store'[StageKey(tasks[t].data)], "channelName")
           /\ store'[StageKey(tasks[t].data)].channelName = tasks'[t].channelName]_vars

\* the channel reference of resolution invocation t is not a handle, or it
\* is a handle whose primary lookup returned no candidate
NoResolution(t) ==
    /\ tasks[t].kind = "resolve"
    /\ Has(tasks[t].data, "channel")
    /\ ~StartsWithAt(tasks[t].data.channel) \/ tasks[t].primary = 0

EmittedOn(t, topic) == \E i \in 1..Len(tasks[t].emits) : tasks[t].emits[i].topic = topic

\* the last store write of t is {status: "failed", error: "Channel not found"}
WroteNotFound(t) ==
    /\ tasks[t].writes # <<>>
    /\ LastOf(tasks[t].writes).rec.status = "failed"
    /\ Has(LastOf(tasks[t].writes).rec, "error")
    /\ LastOf(tasks[t].writes).rec.error = "Channel not found"

C11_NoVideos ==
    \A t \in Tasks :
        (tasks[t].kind = "fetch" /\ tasks[t].pc = "done" /\ tasks[t].listed = 0
            /\ tasks[t].err = "" /\ ~tasks[t].threw)
        => /\ tasks[t].writes # <<>>
           /\ LastOf(tasks[t].writes).rec.status = "failed"
           /\ Has(LastOf(tasks[t].writes).rec, "error")
           /\ LastOf(tasks[t].writes).rec.error = "No videos found for channel"
           /\ Len(tasks[t].emits) = 1
           /\ tasks[t].emits[1].topic = "yt.videos.error"
           /\ tasks[t].emits[1].data.error = <<"No videos found for channel">>
\* C12: a resolution or listing invocation whose payload lacks jobID or
\* email performs no store write and emits no event.
C12_NoIdentityNoEffect ==
    \A t \in Tasks :
        (tasks[t].kind \in StageKinds
            /\ (~Has(tasks[t].data, "jobID") \/ ~Has(tasks[t].data, "email")))
        => tasks[t].writes = <<>> /\ tasks[t].emits = <<>>
\* the payload of t carries jobID and email
Identified(t) == ~Falsy(tasks[t].data, "jobID") /\ ~Falsy(tasks[t].data, "email")

\* t is a resolution or listing invocation that has ended
StageEnded(t) == tasks[t].kind \in StageKinds /\ tasks[t].pc = "done"

\* C13: with the API key unset, an ended resolution or listing invocation
\* for jobID and email made no external call, wrote status failed with an
\* error message last, and emitted exactly one event, on its error topic.
C13_NoKeyFailsJob ==
    \A t \in Tasks :
        (StageEnded(t) /\ Identified(t) /\ ~apiKey)
        => /\ tasks[t].primary = -1 /\ tasks[t].fallback = -1 /\ tasks[t].listed = -1
           /\ tasks[t].writes # <<>>
           /\ LastOf(tasks[t].writes).rec.status = "failed"
           /\ Has(LastOf(tasks[t].writes).rec, "error")
           /\ Len(tasks[t].emits) = 1
           /\ tasks[t].emits[1].topic = CatchTopic(tasks[t].kind)

\* C14: a submission answered 500 emitted no event and left no record.
C14_ServerErrorLeavesNothing ==
    \A t \in Tasks :
        (tasks[t].kind = "submit" /\ tasks[t].resp = 500)
        => /\ tasks[t].emits = <<>>
           /\ tasks[t].writes = <<>>
           /\ SubmitKey(tasks[t].jobID) \notin DOMAIN store

\* C15: no exception leaves a resolution or listing handler, and an
\* invocation for jobID and email in which a call failed ends with a last
\* write of status failed and one event on its error topic.
C15_FailuresCaught ==
    \A t \in Tasks :
        tasks[t].kind \in StageKinds =>
            /\ ~tasks[t].threw
            /\ (tasks[t].pc = "done" /\ Identified(t) /\ tasks[t].err # "") =>
                /\ tasks[t].writes # <<>>
                /\ LastOf(tasks[t].writes).rec.status = "failed"
                /\ EmittedOn(t, CatchTopic(tasks[t].kind))

\* C16: an ended resolution or listing invocation for jobID and email
\* emitted exactly one event.
C16_ExactlyOneEvent ==
    \A t \in Tasks :
        (StageEnded(t) /\ Identified(t)) => Len(tasks[t].emits) = 1
\* the submission whose event started the chain of events that invoked t
\* (0: an event of another publisher)
RECURSIVE Origin(_)
Origin(t) ==
    IF tasks[t].kind = "submit" THEN t
    ELSE IF bus[tasks[t].ev].by = 0 THEN 0
    ELSE Origin(bus[tasks[t].ev].by)

\* rec holds the values that submission s wrote
KeepsSubmitted(rec, s) ==
    /\ Has(rec, "jobID") /\ rec.jobID = tasks[s].jobID
    /\ Has(rec, "channel") /\ rec.channel = tasks[s].data.channel
    /\ Has(rec, "email") /\ rec.email = tasks[s].data.email
    /\ Has(rec, "createdAt") /\ rec.createdAt = tasks[s].createdAt

\* C17: every store write of a resolution or listing invocation goes to the
\* key under which the submission created the job's record, and the record
\* written still holds the submitted jobID, channel, email and createdAt.
C17_SameRecord ==
    \A t \in Tasks :
        (tasks[t].kind \in StageKinds /\ Origin(t) # 0) =>
            \A n \in 1..Len(tasks[t].writes) :
                /\ tasks[t].writes[n].key = SubmitKey(tasks[Origin(t)].jobID)
                /\ KeepsSubmitted(tasks[t].writes[n].rec, Origin(t))
\* the record a store write of t is based on: its own last write, or else
\* the copy it read
BasedOn(t) ==
    IF tasks[t].writes = <<>> THEN tasks[t].jobData ELSE LastOf(tasks[t].writes).rec

\* C18: with every event delivered once, a store write of a resolution or
\* listing invocation replaces exactly the record it is based on: no other
\* handler has written the job's record since the invocation read it.
C18_NoLostUpdate ==
    [][\A t \in Tasks :
        (tasks[t].kind \in StageKinds /\ Wrote(t))
        => StateGet(StageKey(tasks[t].data)) = BasedOn(t)]_vars
\* C19: every event on the resolution-error topic, emitted after an empty
\* lookup or by the catch block, carries exactly jobID and email and no error
\* field.
C19_ResolutionErrorPayload ==
    \A i \in 1..Len(bus) :
        bus[i].topic = "yt.channel.error"
        => DOMAIN bus[i].data = {"jobID", "email"}

\* the topics the notifier consumes
NotifierTopics == {"yt.videos.fetched", "yt.videos.error", "yt.channel.error"}

\* every handler has ended and every event with a subscriber was delivered
Quiescent ==
    /\ \A t \in Tasks : tasks[t].pc = "done"
    /\ \A i \in 1..Len(bus) :
        bus[i].topic \in {"yt.submit", "yt.channel.resolved"} => dlv[i] >= 1

\* C20: once the pipeline of a job accepted with 201 has run to its end, the
\* record the submission created has status videos fetched or failed, and
\* exactly one event for the notifier was emitted for the job.
C20_JobSettles ==
    \A t \in Tasks :
        (tasks[t].kind = "submit" /\ tasks[t].resp = 201 /\ Quiescent)
        => /\ SubmitKey(tasks[t].jobID) \in DOMAIN store
           /\ IsTerminal(store[SubmitKey(tasks[t].jobID)])
           /\ Cardinality({i \in 1..Len(bus) :
                  /\ bus[i].topic \in NotifierTopics
                  /\ Has(bus[i].data, "jobID")
                  /\ bus[i].data.jobID = tasks[t].jobID}) = 1

====
